---- MODULE Spec2Model ----
(***************************************************************************)
(* A model of AutoCodex's review engine (src/main.py): the metric          *)
(* collector, the structural analyzers, the quality scorer and the         *)
(* repository walker of AdvancedCodeReviewBot.                             *)
(*                                                                         *)
(* Conventions.                                                            *)
(*  - A call that may raise yields an outcome record: Return(v) or         *)
(*    Raise(e).  try/except is a case split on the outcome's kind.         *)
(*  - A text is a sequence of one-character strings.                       *)
(*  - Python floats are modelled as exact rationals in lowest terms.       *)
(*  - The outcomes of third-party calls (radon, pylint, pmd, ast, javalang,*)
(*    the generative model, the GitHub client) are inputs of the model,    *)
(*    drawn from small sets.                                               *)
(***************************************************************************)
EXTENDS Integers, Sequences, FiniteSets, TLC

VARIABLES
    pc,        \* the position of the modelled call
    contents,  \* process_repository's work list
    results,   \* process_repository's report under construction
    ret,       \* what process_repository returned
    listed,    \* history: every entry the provider has listed, with its parent
    log,       \* history: the provider calls and work-list items so far, in order
    arg,       \* the argument of a function modelled on its own
    out,       \* its outcome
    report     \* main: what generate_report wrote and how it ended

vars == <<pc, contents, results, ret, listed, log, arg, out, report>>

(***************************************************************************)
(* Bounds of the model.                                                    *)
(***************************************************************************)
\* longest code text given to calculate_metrics on its own
MaxLen == 5
\* most directory entries the provider ever lists in one walk
MaxEntries == 4
\* most entries in one directory listing
MaxChildren == 2
\* largest total_loc / total_issues / complexity sum given to the scorer on its own
MaxScoreArg == 3

(***************************************************************************)
(* Outcomes of calls.                                                      *)
(***************************************************************************)
Return(v) == [kind |-> "return", value |-> v]

Raise(e) == [kind |-> "raise", exc |-> e]

Returned(o) == o.kind = "return"

Raised(o) == o.kind = "raise"

(***************************************************************************)
(* Exact rationals for Python's float arithmetic.                          *)
(***************************************************************************)
Abs(n) == IF n < 0 THEN -n ELSE n

RECURSIVE GCD(_, _)
GCD(a, b) == IF b = 0 THEN a ELSE GCD(b, a % b)

\* n/d in lowest terms, d > 0
Rat(n, d) == LET g == GCD(Abs(n), Abs(d))
                 s == IF d < 0 THEN -1 ELSE 1
             IN  [num |-> (s * n) \div g, den |-> (s * d) \div g]

RatInt(n) == [num |-> n, den |-> 1]

RatAdd(a, b) == Rat(a.num * b.den + b.num * a.den, a.den * b.den)

RatSub(a, b) == Rat(a.num * b.den - b.num * a.den, a.den * b.den)

RatMul(a, b) == Rat(a.num * b.num, a.den * b.den)

\* a / b, b # 0
RatDiv(a, b) == Rat(a.num * b.den, a.den * b.num)

RatLess(a, b) == a.num * b.den < b.num * a.den

RatMax(a, b) == IF RatLess(a, b) THEN b ELSE a

RatMin(a, b) == IF RatLess(b, a) THEN b ELSE a

(***************************************************************************)
(* Texts.                                                                  *)
(***************************************************************************)
\* the characters of the modelled code texts
Alphabet == {"i", "f", "\n", "\r"}

\* line boundaries of str.splitlines; the model's texts hold the first two
LineBreaks == {"\n", "\r", "\f"}

WordChars == {"i", "f"}

SeqsUpTo(S, n) == UNION {[1..k -> S] : k \in 0..n}

Texts == SeqsUpTo(Alphabet, MaxLen)

Slice(s, i, j) == SubSeq(s, i, j)

\* first index >= i of s holding a line boundary, or Len(s)+1
RECURSIVE NextBreak(_, _)
NextBreak(s, i) == IF i > Len(s) \/ s[i] \in LineBreaks THEN i ELSE NextBreak(s, i + 1)

\* str.splitlines from position i: the line up to the next boundary is appended,
\* "\r\n" is one boundary, and no empty line follows a final boundary
RECURSIVE SplitFrom(_, _)
SplitFrom(s, i) ==
    IF i > Len(s) THEN <<>>
    ELSE LET eol == NextBreak(s, i)
             j   == IF eol > Len(s) THEN eol
                    ELSE IF s[eol] = "\r" /\ eol + 1 <= Len(s) /\ s[eol + 1] = "\n"
                         THEN eol + 2
                         ELSE eol + 1
         IN  <<Slice(s, i, eol - 1)>> \o SplitFrom(s, j)

\* split at every boundary, as str.split does: a final boundary starts one more, empty line
SplitKeepingLast(code) ==
    SplitFrom(code, 1) \o (IF code # <<>> /\ code[Len(code)] \in LineBreaks THEN << <<>> >> ELSE <<>>)

splitlines(code) == SplitFrom(code, 1)

(***************************************************************************)
(* Words and tokens.                                                       *)
(***************************************************************************)
\* first index >= i of s that is not a word character, or Len(s)+1
RECURSIVE WordEnd(_, _)
WordEnd(s, i) == IF i > Len(s) \/ s[i] \notin WordChars THEN i ELSE WordEnd(s, i + 1)

\* the maximal runs of word characters of s from position i, in order
RECURSIVE RunsFrom(_, _)
RunsFrom(s, i) ==
    IF i > Len(s) THEN <<>>
    ELSE IF s[i] \notin WordChars THEN RunsFrom(s, i + 1)
    ELSE LET e == WordEnd(s, i) IN <<Slice(s, i, e - 1)>> \o RunsFrom(s, e)

Runs(s) == RunsFrom(s, 1)

SeqToSet(q) == {q[k] : k \in 1..Len(q)}

\* the control-flow keywords of the Java fallback
ControlKeywords == {<<"i", "f">>, <<"f", "o", "r">>, <<"w", "h", "i", "l", "e">>, <<"s", "w", "i", "t", "c", "h">>}

\* len(re.findall(r'\b(if|for|while|switch)\b', code)): a match is a whole word
CountControlKeywords(code) == Len(SelectSeq(Runs(code), LAMBDA w : w \in ControlKeywords))

\* TfidfVectorizer's analyzer, token_pattern \b\w\w+\b: the words of two or
\* more characters (the model's alphabet is lower case already)
Tokens(line) == SelectSeq(Runs(line), LAMBDA w : Len(w) >= 2)

TokenSet(line) == SeqToSet(Tokens(line))

\* TfidfVectorizer.fit_transform raises ValueError on an empty vocabulary
EmptyVocabulary(lines) == \A k \in 1..Len(lines) : Tokens(lines[k]) = <<>>

\* The l2-normalised tf-idf row of a line with one distinct token is the unit
\* vector of that token, and of a line with no token the zero row; the model
\* decides the cosine only for such lines.
DupModelled(lines) == \A k \in 1..Len(lines) : Cardinality(TokenSet(lines[k])) <= 1

\* similarity_matrix[a][b] > 0.8
Similar(lines, a, b) == TokenSet(lines[a]) # {} /\ TokenSet(lines[a]) = TokenSet(lines[b])

\* np.sum(similarity_matrix > 0.8)
CountSimilar(lines) == Cardinality({p \in (1..Len(lines)) \X (1..Len(lines)) : Similar(lines, p[1], p[2])})

(***************************************************************************)
(* The metric collector.                                                   *)
(*                                                                         *)
(* ext holds what the third-party calls do on this code:                   *)
(*   ext.cc      cc_visit(code): Raise, or Return(the set of the blocks'   *)
(*               complexities)                                             *)
(*   ext.mi      mi_visit(code, multi=True): Raise, or Return(the index)   *)
(*   ext.pylint  the linter run: Raise, or Return(len(reporter.messages))  *)
(*   ext.pmd     writing temp.java and running pmd: Raise, or              *)
(*               Return([text, files]) for the process's stdout            *)
(***************************************************************************)
SetMax(S) == CHOOSE m \in S : \A n \in S : n <= m

\* max((cc.complexity for cc in ...), default=0)
MaxDefault0(S) == IF S = {} THEN 0 ELSE SetMax(S)

WithKey(m, k, v) == (k :> v) @@ m

\* the linter's score: 10.0 without messages, else max(0.0, 10.0 - 0.1 * len(messages))
_run_pylint(code, ext) ==
    IF Raised(ext.pylint) THEN ext.pylint
    ELSE LET n == ext.pylint.value
         IN  Return(IF n > 0 THEN RatMax(RatInt(0), RatSub(RatInt(10), Rat(n, 10))) ELSE RatInt(10))

\* lines 84-90: the record every call starts from
InitialMetrics(code) ==
    [loc |-> Len(splitlines(code)), complexity |-> 0, maintainability |-> 0,
     test_coverage |-> 0, duplication |-> RatInt(0)]

\* lines 93-104: the Python branch of the try block; [m, ok], ok = no exception
PythonMetrics(m, code, ext) ==
    IF Raised(ext.cc) THEN [m |-> m, ok |-> FALSE]
    ELSE LET m1 == [m EXCEPT !.complexity = MaxDefault0(ext.cc.value)]
         IN  IF Raised(ext.mi) THEN [m |-> m1, ok |-> FALSE]
             ELSE LET m2 == [m1 EXCEPT !.maintainability = ext.mi.value]
                      lint == _run_pylint(code, ext)
                  IN  IF Raised(lint) THEN [m |-> m2, ok |-> FALSE]
                      ELSE [m |-> WithKey(m2, "pylint_score", lint.value), ok |-> TRUE]

\* lines 106-125: the Java branch; only FileNotFoundError is handled inside it
JavaMetrics(m, code, ext) ==
    IF Raised(ext.pmd)
    THEN IF ext.pmd.exc = "FileNotFoundError"
         THEN [m |-> [m EXCEPT !.complexity = CountControlKeywords(code), !.maintainability = 50],
               ok |-> TRUE]
         ELSE [m |-> m, ok |-> FALSE]
    ELSE LET stdout == ext.pmd.value
         IN  IF stdout.text = "empty" THEN [m |-> m, ok |-> TRUE]
             ELSE IF stdout.text = "json"
                  THEN [m |-> WithKey(m, "pmd_violations", stdout.files), ok |-> TRUE]
                  ELSE [m |-> m, ok |-> FALSE]

\* lines 127-134: the duplication step
DuplicationMetrics(m, code) ==
    LET lines == splitlines(code)
    IN  IF Len(lines) > 1
        THEN IF EmptyVocabulary(lines) THEN [m |-> m, ok |-> FALSE]
             ELSE [m |-> [m EXCEPT !.duplication = Rat(CountSimilar(lines) - Len(lines), 2)],
                   ok |-> TRUE]
        ELSE [m |-> m, ok |-> TRUE]

\* lines 83-139: one try block around the language branch and the duplication
\* step; the first exception ends the block and the record is returned as it is
calculate_metrics(code, language, ext) ==
    LET m0 == InitialMetrics(code)
        lang == IF language = "python" THEN PythonMetrics(m0, code, ext)
                ELSE IF language = "java" THEN JavaMetrics(m0, code, ext)
                ELSE [m |-> m0, ok |-> TRUE]
    IN  IF lang.ok THEN Return(DuplicationMetrics(lang.m, code).m) ELSE Return(lang.m)

(***************************************************************************)
(* Syntax trees.  A node is a record with its type, its child nodes in the *)
(* parser's order, and the attributes the analyzers read.                  *)
(***************************************************************************)
PyName(id) == [type |-> "Name", id |-> id, children |-> <<>>]

PyAttribute(value, attr) == [type |-> "Attribute", attr |-> attr, children |-> <<value>>]

PyCall(func, args) == [type |-> "Call", func |-> func, children |-> <<func>> \o args]

PyExpr(value) == [type |-> "Expr", children |-> <<value>>]

PyListComp == [type |-> "ListComp", children |-> <<>>]

PyFor(body) == [type |-> "For", children |-> body]

PyArg(name, annotated) == [type |-> "arg", arg |-> name, annotation |-> annotated, children |-> <<>>]

PyArguments(args) == [type |-> "arguments", args |-> args, children |-> args]

\* returns: whether the definition has a return annotation
PyFunctionDef(name, args, body, returns) ==
    [type |-> "FunctionDef", name |-> name, args |-> PyArguments(args), returns |-> returns,
     children |-> <<PyArguments(args)>> \o body]

PyModule(body) == [type |-> "Module", children |-> body]

\* ast.walk: breadth first from the root, which it yields first
RECURSIVE WalkQueue(_)
WalkQueue(todo) ==
    IF todo = <<>> THEN <<>>
    ELSE <<Head(todo)>> \o WalkQueue(Tail(todo) \o Head(todo).children)

ast_walk(tree) == WalkQueue(<<tree>>)

JavaDeclarator(name) == [type |-> "VariableDeclarator", name |-> name, children |-> <<>>]

JavaField(modifiers, names) ==
    [type |-> "FieldDeclaration", modifiers |-> modifiers,
     declarators |-> [k \in 1..Len(names) |-> JavaDeclarator(names[k])],
     children |-> [k \in 1..Len(names) |-> JavaDeclarator(names[k])]]

JavaMethod(name, body) == [type |-> "MethodDeclaration", name |-> name, children |-> body]

\* finally_block, resources: whether the attribute is truthy
JavaTry(finally_block, resources) ==
    [type |-> "TryStatement", finally_block |-> finally_block, resources |-> resources,
     children |-> <<>>]

JavaClass(name, body) == [type |-> "ClassDeclaration", name |-> name, body |-> body, children |-> body]

JavaUnit(types) == [type |-> "CompilationUnit", children |-> types]

\* ClassDeclaration.fields / .methods: the declarations of that type in the body
ClassFields(node) == SelectSeq(node.body, LAMBDA d : d.type = "FieldDeclaration")

ClassMethods(node) == SelectSeq(node.body, LAMBDA d : d.type = "MethodDeclaration")

\* iterating a javalang tree: depth first, a node before its children
RECURSIVE WalkStack(_)
WalkStack(todo) ==
    IF todo = <<>> THEN <<>>
    ELSE <<Head(todo)>> \o WalkStack(Head(todo).children \o Tail(todo))

java_walk(tree) == WalkStack(<<tree>>)

RECURSIVE Flatten(_)
Flatten(qs) == IF qs = <<>> THEN <<>> ELSE Head(qs) \o Flatten(Tail(qs))

(***************************************************************************)
(* The structural analyzers.  ext.ast is what ast.parse(code) does and     *)
(* ext.javatree what javalang.parse.parse(code) does: Raise, or            *)
(* Return(tree).                                                           *)
(***************************************************************************)
\* lines 176-180: args.args holds arg nodes, which are never AnnAssign nodes
TypeHintIssues(node) ==
    IF node.type = "FunctionDef"
       /\ ~node.returns
       /\ ~(\E k \in 1..Len(node.args.args) : node.args.args[k].type = "AnnAssign")
    THEN <<[issue |-> "Missing type hints in function", name |-> node.name]>>
    ELSE <<>>

\* the list of line 184 without 'exec'
SecurityIssuesEvalOnly(node) ==
    IF node.type = "Call"
       /\ "id" \in DOMAIN node.func
       /\ node.func.id \in {"eval"}
    THEN <<[issue |-> "Potentially unsafe use of", name |-> node.func.id]>>
    ELSE <<>>

\* lines 183-185: getattr(node.func, 'id', '') in ['eval', 'exec']
SecurityIssues(node) ==
    IF node.type = "Call"
       /\ "id" \in DOMAIN node.func
       /\ node.func.id \in {"eval", "exec"}
    THEN <<[issue |-> "Potentially unsafe use of", name |-> node.func.id]>>
    ELSE <<>>

\* lines 188-191: parent is the first node ast.walk yields for the whole tree
PerformanceIssues(tree, node) ==
    IF node.type = "ListComp" /\ ast_walk(tree)[1].type = "For"
    THEN <<[issue |-> "Consider using generator expression for memory efficiency"]>>
    ELSE <<>>

\* lines 168-196
_analyze_python(code, ext) ==
    IF Raised(ext.ast) THEN <<[issue |-> "Python analysis error", error |-> ext.ast.exc]>>
    ELSE LET tree == ext.ast.value
             nodes == ast_walk(tree)
         IN  Flatten([k \in 1..Len(nodes) |->
                        TypeHintIssues(nodes[k]) \o SecurityIssues(nodes[k])
                        \o PerformanceIssues(tree, nodes[k])])

\* lines 206-208
TryIssues(node) ==
    IF node.type = "TryStatement" /\ ~node.finally_block /\ ~node.resources
    THEN <<[issue |-> "Consider adding finally block or try-with-resources"]>>
    ELSE <<>>

\* lines 211-213
FinalIssues(node) ==
    IF node.type = "FieldDeclaration" /\ "final" \notin node.modifiers
    THEN <<[issue |-> "Consider making field final", name |-> node.declarators[1].name]>>
    ELSE <<>>

\* lines 216-220
BuilderIssues(node) ==
    IF node.type = "ClassDeclaration"
       /\ Len(ClassFields(node)) > 5
       /\ ~(\E k \in 1..Len(ClassMethods(node)) : ClassMethods(node)[k].name = "builder")
    THEN <<[issue |-> "Consider implementing Builder pattern"]>>
    ELSE <<>>

\* an except clause that drops the parser's exception
AnalyzeJavaSilent(code, ext) ==
    IF Raised(ext.javatree) THEN <<>>
    ELSE LET nodes == java_walk(ext.javatree.value)
         IN  Flatten([k \in 1..Len(nodes) |->
                        TryIssues(nodes[k]) \o FinalIssues(nodes[k]) \o BuilderIssues(nodes[k])])

\* lines 198-225
_analyze_java(code, ext) ==
    IF Raised(ext.javatree) THEN <<[issue |-> "Java analysis error", error |-> ext.javatree.exc]>>
    ELSE LET nodes == java_walk(ext.javatree.value)
         IN  Flatten([k \in 1..Len(nodes) |->
                        TryIssues(nodes[k]) \o FinalIssues(nodes[k]) \o BuilderIssues(nodes[k])])

\* lines 29-55: the thresholds of the rule catalog
_load_rules ==
    [python |-> [max_line_length |-> 100, max_function_length |-> 50, max_complexity |-> 10,
                 min_test_coverage |-> 80],
     java   |-> [max_line_length |-> 120, max_function_length |-> 60, max_complexity |-> 15,
                 min_test_coverage |-> 85]]

\* lines 141-166
analyze_code_quality(code, language, ext) ==
    LET metrics_result == calculate_metrics(code, language, ext).value
        high == IF metrics_result.complexity > _load_rules[language].max_complexity
                THEN <<[issue |-> "High cyclomatic complexity",
                        complexity |-> metrics_result.complexity,
                        max |-> _load_rules[language].max_complexity]>>
                ELSE <<>>
        dup  == IF RatLess(RatInt(10), metrics_result.duplication)
                THEN <<[issue |-> "High code duplication detected",
                        duplication |-> metrics_result.duplication]>>
                ELSE <<>>
        own  == IF language = "python" THEN _analyze_python(code, ext)
                ELSE _analyze_java(code, ext)
        issues == high \o dup \o own
    IN  Return([issues |-> issues, metrics |-> metrics_result, total_issues |-> Len(issues)])

\* without the try block of lines 241-245: the generator's exception propagates
GetAiSuggestionsPropagating(code, language, metrics, gen) ==
    IF ~({"complexity", "maintainability", "loc"} \subseteq DOMAIN metrics) THEN Raise("KeyError")
    ELSE IF Raised(gen) THEN gen
    ELSE Return([text |-> gen.value])

\* lines 227-245: gen is what model.generate_content(prompt) does
get_ai_suggestions(code, language, metrics, gen) ==
    IF ~({"complexity", "maintainability", "loc"} \subseteq DOMAIN metrics) THEN Raise("KeyError")
    ELSE IF Raised(gen) THEN Return([text |-> "AI review failed: ", error |-> gen.exc])
    ELSE Return([text |-> gen.value])

(***************************************************************************)
(* The quality scorer.                                                     *)
(***************************************************************************)
\* lines 319-327: the body of the try block, in evaluation order
ScoreBody(metrics) ==
    IF "avg_complexity" \notin DOMAIN metrics THEN Raise("KeyError")
    ELSE LET complexity_score ==
                 RatMax(RatInt(0), RatSub(RatInt(100), RatMul(metrics.avg_complexity, RatInt(5))))
             maintainability_score ==
                 IF "avg_maintainability" \in DOMAIN metrics THEN metrics.avg_maintainability
                 ELSE RatInt(50)
         IN  IF "total_issues" \notin DOMAIN metrics THEN Raise("KeyError")
             ELSE IF "total_loc" \notin DOMAIN metrics THEN Raise("KeyError")
             ELSE IF metrics.total_loc = 0 THEN Raise("ZeroDivisionError")
             ELSE LET issues_density ==
                          RatMin(RatInt(100),
                                 RatMul(Rat(metrics.total_issues, metrics.total_loc), RatInt(1000)))
                  IN  Return(RatAdd(RatAdd(RatMul(Rat(3, 10), complexity_score),
                                           RatMul(Rat(3, 10), maintainability_score)),
                                    RatMul(Rat(4, 10), RatSub(RatInt(100), issues_density))))

\* an except clause for ZeroDivisionError alone
ScoreCatchingZeroDivision(metrics) ==
    IF Raised(ScoreBody(metrics)) /\ ScoreBody(metrics).exc = "ZeroDivisionError"
    THEN Return(RatInt(0))
    ELSE ScoreBody(metrics)

\* lines 310-329: a bare except turns every exception of the body into 0
_calculate_quality_score(metrics) ==
    IF Raised(ScoreBody(metrics)) THEN Return(RatInt(0)) ELSE ScoreBody(metrics)

(***************************************************************************)
(* The repository walker.                                                  *)
(***************************************************************************)
NoValue == [kind |-> "none"]

repo_name == "owner/repo"

\* lines 250-262
InitialResults(name) ==
    [repository |-> name, scan_date |-> "now", files_analyzed |-> 0, total_issues |-> 0,
     file_results |-> <<>>,
     overall_metrics |-> [avg_complexity |-> RatInt(0), avg_maintainability |-> RatInt(0),
                          total_loc |-> 0, quality_score |-> RatInt(0)]]

\* the error result without its marker
ErrorResultNoMarker(name, e) == [repository |-> name, files_analyzed |-> 0, total_issues |-> 0]

\* lines 302-308
ErrorResult(name, e) == [repository |-> name, error |-> e, files_analyzed |-> 0, total_issues |-> 0]

\* str.endswith
endswith(path, suffix) ==
    Len(path) >= Len(suffix) /\ SubSeq(path, Len(path) - Len(suffix) + 1, Len(path)) = suffix

DotPy == <<".", "p", "y">>

DotJava == <<".", "j", "a", "v", "a">>

\* the suffixes without their dots
IsRecognizedNoDot(path) == endswith(path, <<"p", "y">>) \/ endswith(path, <<"j", "a", "v", "a">>)

\* line 269
IsRecognized(path) == endswith(path, DotPy) \/ endswith(path, DotJava)

\* line 270
LanguageOf(path) == IF endswith(path, DotPy) THEN "python" ELSE "java"

\* the file's maintainability is added to avg_maintainability as well
RecordFileSummingMaintainability(res, path, language, analysis, suggestions) ==
    [res EXCEPT
       !.file_results = (path :> [language |-> language, issues |-> analysis.issues,
                                  metrics |-> analysis.metrics, ai_suggestions |-> suggestions])
                        @@ res.file_results,
       !.overall_metrics.avg_complexity = RatAdd(@, RatInt(analysis.metrics.complexity)),
       !.overall_metrics.avg_maintainability = RatAdd(@, RatInt(analysis.metrics.maintainability)),
       !.overall_metrics.total_loc = @ + analysis.metrics.loc,
       !.total_issues = @ + analysis.total_issues,
       !.files_analyzed = @ + 1]

\* the record is stored and the file count is left as it was
RecordFileNoCount(res, path, language, analysis, suggestions) ==
    [res EXCEPT
       !.file_results = (path :> [language |-> language, issues |-> analysis.issues,
                                  metrics |-> analysis.metrics, ai_suggestions |-> suggestions])
                        @@ res.file_results,
       !.overall_metrics.avg_complexity = RatAdd(@, RatInt(analysis.metrics.complexity)),
       !.overall_metrics.total_loc = @ + analysis.metrics.loc,
       !.total_issues = @ + analysis.total_issues]

\* lines 277-288: the record is stored, then the four counters are updated
RecordFile(res, path, language, analysis, suggestions) ==
    [res EXCEPT
       !.file_results = (path :> [language |-> language, issues |-> analysis.issues,
                                  metrics |-> analysis.metrics, ai_suggestions |-> suggestions])
                        @@ res.file_results,
       !.overall_metrics.avg_complexity = RatAdd(@, RatInt(analysis.metrics.complexity)),
       !.overall_metrics.total_loc = @ + analysis.metrics.loc,
       !.total_issues = @ + analysis.total_issues,
       !.files_analyzed = @ + 1]

\* lines 272-292: the per-file try block; any exception leaves the results as they are.
\* content is what file_content.decoded_content.decode('utf-8') does.
ProcessFile(res, path, content, ext, gen) ==
    IF Raised(content) THEN res
    ELSE LET language == LanguageOf(path)
             analysis == analyze_code_quality(content.value, language, ext)
         IN  IF Raised(analysis) THEN res
             ELSE LET ai == get_ai_suggestions(content.value, language, analysis.value.metrics, gen)
                  IN  IF Raised(ai) THEN res
                      ELSE RecordFile(res, path, language, analysis.value, ai.value)

\* floor division in place of true division
FinalResultsFloorDiv(res) ==
    IF res.files_analyzed > 0
    THEN LET avg == RatInt(res.overall_metrics.avg_complexity.num \div res.files_analyzed)
             om == [res.overall_metrics EXCEPT !.avg_complexity = avg]
             score == _calculate_quality_score(om)
         IN  IF Raised(score) THEN score
             ELSE Return([res EXCEPT !.overall_metrics = [om EXCEPT !.quality_score = score.value]])
    ELSE Return(res)

\* lines 295-301: the averages are final only here; the scorer is given overall_metrics
FinalResults(res) ==
    IF res.files_analyzed > 0
    THEN LET avg == RatDiv(res.overall_metrics.avg_complexity, RatInt(res.files_analyzed))
             om == [res.overall_metrics EXCEPT !.avg_complexity = avg]
             score == _calculate_quality_score(om)
         IN  IF Raised(score) THEN score
             ELSE Return([res EXCEPT !.overall_metrics = [om EXCEPT !.quality_score = score.value]])
    ELSE Return(res)

\* line 268: contents.extend(...)
Extend(queue, listing) == queue \o listing

\* lines 333-343: the lines generate_report writes before the file sections,
\* in order, each with the keys of results that formatting it reads
HeaderLines ==
    <<[line |-> "# Code Review Analysis Report", reads |-> {}],
      [line |-> "## Repository:", reads |-> {"repository"}],
      [line |-> "Analysis Date:", reads |-> {"scan_date"}],
      [line |-> "## Overall Metrics", reads |-> {}],
      [line |-> "- Files Analyzed:", reads |-> {"files_analyzed"}],
      [line |-> "- Total Issues:", reads |-> {"total_issues"}],
      [line |-> "- Average Complexity:", reads |-> {"overall_metrics"}],
      [line |-> "- Quality Score:", reads |-> {"overall_metrics"}],
      [line |-> "## Detailed Analysis", reads |-> {}]>>

\* the first header line that reads a key res does not have, or Len(HeaderLines) + 1
RECURSIVE FirstMissing(_, _)
FirstMissing(res, k) ==
    IF k > Len(HeaderLines) \/ ~(HeaderLines[k].reads \subseteq DOMAIN res) THEN k
    ELSE FirstMissing(res, k + 1)

\* a missing key is written as a blank, as results.get(key, '') would
GenerateReportBlankingMissing(res) ==
    [written |-> [j \in 1..Len(HeaderLines) |-> HeaderLines[j].line],
     sections |-> IF "file_results" \in DOMAIN res THEN DOMAIN res.file_results ELSE {},
     outcome |-> Return(NoValue)]

\* lines 331-359: the header lines written to the file, the files whose
\* section was written, and how the call ended.  A subscript with a missing
\* key raises KeyError before the line it is part of is written; the with
\* block closes the file with what was written so far.
generate_report(res) ==
    LET k == FirstMissing(res, 1)
        header == [j \in 1..(k - 1) |-> HeaderLines[j].line]
    IN  IF k <= Len(HeaderLines) \/ "file_results" \notin DOMAIN res
        THEN [written |-> header, sections |-> {}, outcome |-> Raise("KeyError")]
        ELSE [written |-> header, sections |-> DOMAIN res.file_results, outcome |-> Return(NoValue)]

(***************************************************************************)
(* The inputs of the walk: what the provider lists, what the files hold    *)
(* and what the third-party calls do on them.                              *)
(***************************************************************************)
NamePy == <<"m", ".", "p", "y">>

NameJava == <<"j", ".", "j", "a", "v", "a">>

\* ends in "py" without the dot
NameOther == <<"p", "y">>

NameDir == <<"d">>

\* a directory may carry a recognized extension
EntryKinds ==
    {[name |-> NamePy, type |-> "file"], [name |-> NameJava, type |-> "file"],
     [name |-> NameOther, type |-> "file"], [name |-> NameDir, type |-> "dir"],
     [name |-> NamePy, type |-> "dir"]}

JoinPath(parent, name) == IF parent = <<>> THEN name ELSE parent \o <<"/">> \o name

Min(a, b) == IF a < b THEN a ELSE b

\* the listings the provider may return for directory parent: distinct names,
\* within the bounds of the model
Listings(parent) ==
    LET room == Min(MaxChildren, MaxEntries - Cardinality(listed))
        kinds == {q \in SeqsUpTo(EntryKinds, room) :
                    \A a, b \in 1..Len(q) : a # b => q[a].name # q[b].name}
    IN  {[k \in 1..Len(q) |-> [path |-> JoinPath(parent, q[k].name), type |-> q[k].type]] :
           q \in kinds}

\* the name is what follows the parent's path in the entry's path
ListedAs(parent, listing) ==
    {[path |-> listing[k].path, type |-> listing[k].type, parent |-> parent,
      name |-> SubSeq(listing[k].path, Len(JoinPath(parent, <<>>)) + 1, Len(listing[k].path))] :
       k \in 1..Len(listing)}

TextIf == <<"i", "f">>

TextIfIf == <<"i", "f", "\n", "i", "f">>

TextIfIfNl == <<"i", "f", "\n", "i", "f", "\n">>

Unused == Raise("not called")

\* no third-party call is reached
NoExt ==
    [cc |-> Unused, mi |-> Unused, pylint |-> Unused, pmd |-> Unused, ast |-> Unused,
     javatree |-> Unused]

\* a function without annotations that calls eval
TreeEval ==
    PyModule(<<PyFunctionDef("f", <<PyArg("x", FALSE)>>,
                             <<PyExpr(PyCall(PyName("eval"), <<PyName("x")>>))>>, FALSE)>>)

\* a list comprehension inside a for loop
TreeLoop == PyModule(<<PyFor(<<PyExpr(PyListComp)>>)>>)

\* the loop, then eval(exec(x)) and m.eval(x): two calls of the builtins and
\* a method call
TreeCalls ==
    PyModule(TreeLoop.children
             \o <<PyExpr(PyCall(PyName("eval"), <<PyCall(PyName("exec"), <<PyName("x")>>)>>)),
                  PyExpr(PyCall(PyAttribute(PyName("m"), "eval"), <<PyName("x")>>))>>)

\* a class with one field that is not final and a plain try
TreeClass ==
    JavaUnit(<<JavaClass("A", <<JavaField({"private"}, <<"a">>),
                                JavaMethod("run", <<JavaTry(FALSE, FALSE)>>)>>)>>)

\* the Python files of the walk: the text, and what the third-party calls do on it
PythonFiles ==
    {[code |-> TextIf,
      ext |-> [cc |-> Return({1}), mi |-> Return(75), pylint |-> Return(3), pmd |-> Unused,
               ast |-> Return(TreeEval), javatree |-> Unused]],
     [code |-> <<>>,
      ext |-> [cc |-> Return({}), mi |-> Return(100), pylint |-> Return(0), pmd |-> Unused,
               ast |-> Return(PyModule(<<>>)), javatree |-> Unused]],
     [code |-> TextIfIf,
      ext |-> [cc |-> Raise("SyntaxError"), mi |-> Raise("SyntaxError"), pylint |-> Return(1),
               pmd |-> Unused, ast |-> Raise("SyntaxError"), javatree |-> Unused]],
     [code |-> TextIf,
      ext |-> [cc |-> Return({1, 11}), mi |-> Return(40), pylint |-> Raise("OSError"),
               pmd |-> Unused, ast |-> Return(TreeCalls), javatree |-> Unused]]}

\* the Java files of the walk
JavaFiles ==
    {[code |-> TextIfIfNl,
      ext |-> [cc |-> Unused, mi |-> Unused, pylint |-> Unused,
               pmd |-> Raise("FileNotFoundError"), ast |-> Unused,
               javatree |-> Return(TreeClass)]],
     [code |-> <<"f">>,
      ext |-> [cc |-> Unused, mi |-> Unused, pylint |-> Unused,
               pmd |-> Return([text |-> "json", files |-> 2]), ast |-> Unused,
               javatree |-> Raise("JavaSyntaxError")]]}

FilesOf(language) == IF language = "python" THEN PythonFiles ELSE JavaFiles

\* what the generative model does
Gens == {Return("advice"), Raise("quota exceeded")}

\* what fetching and decoding a file's content may raise
ContentErrors == {Raise("GithubException"), Raise("UnicodeDecodeError")}

(***************************************************************************)
(* process_repository, lines 247-308.                                      *)
(***************************************************************************)
\* the outer except: the walk ends with the error result
Abort(e) ==
    /\ ret' = Return(ErrorResult(repo_name, e))
    /\ pc' = "done"

\* line 249 raises
GetRepoFails ==
    /\ pc = "get_repo"
    /\ Abort("UnknownObjectException")
    /\ log' = Append(log, [ev |-> "get_repo", ok |-> FALSE])
    /\ UNCHANGED <<contents, results, listed, arg, out, report>>

\* lines 249-262
GetRepo ==
    /\ pc = "get_repo"
    /\ results' = InitialResults(repo_name)
    /\ pc' = "get_contents"
    /\ log' = Append(log, [ev |-> "get_repo", ok |-> TRUE])
    /\ UNCHANGED <<contents, ret, listed, arg, out, report>>

\* line 264 raises
GetRootFails ==
    /\ pc = "get_contents"
    /\ Abort("GithubException")
    /\ log' = Append(log, [ev |-> "get_contents", path |-> <<>>, ok |-> FALSE])
    /\ UNCHANGED <<contents, results, listed, arg, out, report>>

\* line 264
GetRoot ==
    /\ pc = "get_contents"
    /\ \E listing \in Listings(<<>>) :
         /\ contents' = listing
         /\ listed' = listed \cup ListedAs(<<>>, listing)
    /\ pc' = "loop"
    /\ log' = Append(log, [ev |-> "get_contents", path |-> <<>>, ok |-> TRUE])
    /\ UNCHANGED <<results, ret, arg, out, report>>

\* lines 266-268, the listing raises: the outer except takes over
PopDirFails ==
    /\ pc = "loop" /\ contents # <<>>
    /\ Head(contents).type = "dir"
    /\ Abort("GithubException")
    /\ contents' = Tail(contents)
    /\ log' = Append(log, [ev |-> "get_contents", path |-> Head(contents).path, ok |-> FALSE])
    /\ UNCHANGED <<results, listed, arg, out, report>>

\* lines 266-268
PopDir ==
    /\ pc = "loop" /\ contents # <<>>
    /\ Head(contents).type = "dir"
    /\ \E listing \in Listings(Head(contents).path) :
         /\ contents' = Extend(Tail(contents), listing)
         /\ listed' = listed \cup ListedAs(Head(contents).path, listing)
    /\ log' = Append(log, [ev |-> "get_contents", path |-> Head(contents).path, ok |-> TRUE])
    /\ UNCHANGED <<pc, results, ret, arg, out, report>>

\* lines 269-292, a recognized file whose content cannot be fetched or decoded
PopFileFails ==
    /\ pc = "loop" /\ contents # <<>>
    /\ Head(contents).type # "dir" /\ IsRecognized(Head(contents).path)
    /\ \E content \in ContentErrors :
         results' = ProcessFile(results, Head(contents).path, content, NoExt, Unused)
    /\ contents' = Tail(contents)
    /\ log' = Append(log, [ev |-> "file", path |-> Head(contents).path,
                           language |-> LanguageOf(Head(contents).path), ok |-> FALSE])
    /\ UNCHANGED <<pc, ret, listed, arg, out, report>>

\* lines 269-292, a recognized file whose content arrives
PopFile ==
    /\ pc = "loop" /\ contents # <<>>
    /\ Head(contents).type # "dir" /\ IsRecognized(Head(contents).path)
    /\ \E f \in FilesOf(LanguageOf(Head(contents).path)), gen \in Gens :
         /\ results' = ProcessFile(results, Head(contents).path, Return(f.code), f.ext, gen)
         /\ log' = Append(log, [ev |-> "file", path |-> Head(contents).path,
                                language |-> LanguageOf(Head(contents).path), ok |-> TRUE,
                                file |-> f, gen |-> gen])
    /\ contents' = Tail(contents)
    /\ UNCHANGED <<pc, ret, listed, arg, out, report>>

\* lines 266-269, neither a directory nor a recognized file
PopOther ==
    /\ pc = "loop" /\ contents # <<>>
    /\ Head(contents).type # "dir" /\ ~IsRecognized(Head(contents).path)
    /\ contents' = Tail(contents)
    /\ log' = Append(log, [ev |-> "skip", path |-> Head(contents).path])
    /\ UNCHANGED <<pc, results, ret, listed, arg, out, report>>

\* lines 294-301, and the outer except should the scorer raise
Finish ==
    /\ pc = "loop" /\ contents = <<>>
    /\ LET o == FinalResults(results)
       IN  IF Raised(o) THEN ret' = Return(ErrorResult(repo_name, o.exc)) ELSE ret' = o
    /\ pc' = "done"
    /\ UNCHANGED <<contents, results, listed, log, arg, out, report>>

\* main, lines 369-371: generate_report is called with whatever
\* process_repository returned
GenerateReport ==
    /\ pc = "done" /\ report = NoValue
    /\ report' = generate_report(ret.value)
    /\ UNCHANGED <<pc, contents, results, ret, listed, log, arg, out>>

Init ==
    /\ pc = "get_repo"
    /\ contents = <<>>
    /\ results = NoValue
    /\ ret = NoValue
    /\ listed = {}
    /\ log = <<>>
    /\ arg = NoValue
    /\ out = NoValue
    /\ report = NoValue

Next ==
    \/ GetRepoFails
    \/ GetRepo
    \/ GetRootFails
    \/ GetRoot
    \/ PopDirFails
    \/ PopDir
    \/ PopFileFails
    \/ PopFile
    \/ PopOther
    \/ Finish
    \/ GenerateReport

Spec == Init /\ [][Next]_vars

\* main is one sequential program: while a step is possible, one is taken
SpecLive == Spec /\ WF_vars(Next)

(***************************************************************************)
(* calculate_metrics on its own: every text within the bound, both         *)
(* languages, and what the third-party calls of that language's branch do. *)
(* cc_visit and mi_visit parse the same text, so a text that cc_visit       *)
(* cannot parse mi_visit cannot parse either.                              *)
(***************************************************************************)
PythonExts ==
    {[cc |-> Raise("SyntaxError"), mi |-> Raise("SyntaxError"), pylint |-> l, pmd |-> Unused] :
       l \in {Raise("OSError"), Return(0), Return(3)}}
    \cup {[cc |-> c, mi |-> m, pylint |-> l, pmd |-> Unused] :
            c \in {Return({}), Return({2, 3})},
            m \in {Raise("ValueError"), Return(75)},
            l \in {Raise("OSError"), Return(0), Return(3)}}

JavaExts ==
    {[cc |-> Unused, mi |-> Unused, pylint |-> Unused, pmd |-> p] :
       p \in {Raise("FileNotFoundError"), Raise("PermissionError"),
              Return([text |-> "empty", files |-> 0]), Return([text |-> "json", files |-> 2]),
              Return([text |-> "garbage", files |-> 0])}}

ExtsOf(language) == IF language = "python" THEN PythonExts ELSE JavaExts

InitMetrics ==
    /\ pc = "call_metrics"
    /\ \E c \in Texts, l \in {"python", "java"} :
         /\ DupModelled(splitlines(c))
         /\ \E e \in ExtsOf(l) : arg = [code |-> c, language |-> l, ext |-> e]
    /\ out = NoValue
    /\ contents = <<>> /\ results = NoValue /\ ret = NoValue /\ listed = {} /\ log = <<>>
    /\ report = NoValue

CallMetrics ==
    /\ pc = "call_metrics"
    /\ out' = calculate_metrics(arg.code, arg.language, arg.ext)
    /\ pc' = "done"
    /\ UNCHANGED <<contents, results, ret, listed, log, arg, report>>

SpecMetrics == InitMetrics /\ [][CallMetrics]_vars

(***************************************************************************)
(* _calculate_quality_score on its own: records with and without each key. *)
(***************************************************************************)
Present(v) == [present |-> TRUE, v |-> v]

Absent == [present |-> FALSE]

Opt(k, o, m) == IF o.present THEN WithKey(m, k, o.v) ELSE m

OptInts == {Absent} \cup {Present(n) : n \in 0..MaxScoreArg}

OptRats == {Absent} \cup {Present(Rat(n, d)) : n \in 0..MaxScoreArg, d \in 1..2} \cup {Present(RatInt(25))}

InitScore ==
    /\ pc = "call_score"
    /\ \E c \in OptRats, m \in {Absent, Present(RatInt(0)), Present(RatInt(80))}, l \in OptInts, i \in OptInts :
         arg = Opt("avg_complexity", c, Opt("avg_maintainability", m, Opt("total_loc", l,
                 Opt("total_issues", i, [quality_score |-> RatInt(0)]))))
    /\ out = NoValue
    /\ contents = <<>> /\ results = NoValue /\ ret = NoValue /\ listed = {} /\ log = <<>>
    /\ report = NoValue

CallScore ==
    /\ pc = "call_score"
    /\ out' = _calculate_quality_score(arg)
    /\ pc' = "done"
    /\ UNCHANGED <<contents, results, ret, listed, log, arg, report>>

SpecScore == InitScore /\ [][CallScore]_vars

(***************************************************************************)
(* The structural analyzers on their own.  They read the text only through *)
(* the parser, so an input is the language and what the parser does:       *)
(* raise, or return a tree.  ast.parse returns a Module; the trees below   *)
(* are modules of a few statements and compilation units of one class.     *)
(***************************************************************************)
\* most statements in a module body
MaxStmts == 2

\* most field declarations in a class body
MaxDecls == 6

\* the declarators of a declaration that declares several fields at once
ManyDeclarators == 6

PyArgLists ==
    {<<>>, <<PyArg("x", FALSE)>>, <<PyArg("x", TRUE)>>, <<PyArg("x", FALSE), PyArg("y", TRUE)>>}

\* eval(x), exec(x), print(x), m.eval(x), eval(exec(x))
PyCalls ==
    {PyCall(PyName(n), <<PyName("x")>>) : n \in {"eval", "exec", "print"}}
    \cup {PyCall(PyAttribute(PyName("m"), "eval"), <<PyName("x")>>),
          PyCall(PyName("eval"), <<PyCall(PyName("exec"), <<PyName("x")>>)>>)}

\* a list comprehension inside a for loop
PyLoop == PyFor(<<PyExpr(PyCall(PyName("eval"), <<PyName("x")>>)), PyExpr(PyListComp)>>)

PyBodies == {<<PyExpr(PyName("x"))>>, <<PyLoop>>}

PyStatements ==
    {PyFunctionDef(n, a, b, r) : n \in {"f", "g"}, a \in PyArgLists, b \in PyBodies, r \in BOOLEAN}
    \cup {PyExpr(c) : c \in PyCalls}
    \cup {PyExpr(PyListComp), PyFor(<<PyExpr(PyListComp)>>), PyFor(<<PyExpr(PyName("x"))>>)}

\* what ast.parse may do
AstOutcomes ==
    {Raise("SyntaxError"), Raise("ValueError")}
    \cup {Return(PyModule(body)) : body \in SeqsUpTo(PyStatements, MaxStmts)}

FieldNames == <<"a", "b", "c", "d", "e", "f", "g", "h">>

FieldName(k) == FieldNames[((k - 1) % Len(FieldNames)) + 1]

\* "T a;" for one declarator and "T a, b, ...;" for several
JavaFieldOf(modifiers, k, n) ==
    JavaField(modifiers, IF n = 1 THEN <<FieldName(k)>> ELSE [j \in 1..n |-> FieldName(j)])

JavaMethodLists ==
    {<<>>, <<JavaMethod("builder", <<>>)>>, <<JavaMethod("run", <<JavaTry(FALSE, FALSE)>>)>>,
     <<JavaMethod("run", <<JavaTry(TRUE, FALSE)>>), JavaMethod("builder", <<>>)>>}

\* what javalang.parse.parse may do
JavaOutcomes ==
    {Raise("JavaSyntaxError"), Raise("LexerError")}
    \cup {Return(JavaUnit(<<JavaClass("A", [k \in 1..Len(q) |-> JavaFieldOf(mods, k, q[k])] \o ms)>>)) :
            q \in SeqsUpTo({1, ManyDeclarators}, MaxDecls),
            mods \in {{"private"}, {"private", "final"}},
            ms \in JavaMethodLists}

InitAnalyze ==
    /\ pc = "call_analyze"
    /\ \/ \E o \in AstOutcomes :
            arg = [language |-> "python", ext |-> [ast |-> o, javatree |-> Unused]]
       \/ \E o \in JavaOutcomes :
            arg = [language |-> "java", ext |-> [ast |-> Unused, javatree |-> o]]
    /\ out = NoValue
    /\ contents = <<>> /\ results = NoValue /\ ret = NoValue /\ listed = {} /\ log = <<>>
    /\ report = NoValue

\* lines 157-160: the analyzer of the language, which returns its list of issues
CallAnalyze ==
    /\ pc = "call_analyze"
    /\ out' = Return(IF arg.language = "python" THEN _analyze_python(<<>>, arg.ext)
                     ELSE _analyze_java(<<>>, arg.ext))
    /\ pc' = "done"
    /\ UNCHANGED <<contents, results, ret, listed, log, arg, report>>

SpecAnalyze == InitAnalyze /\ [][CallAnalyze]_vars

(***************************************************************************)
(* The review loop of the web front end (src/app.py, main, lines 465-500). *)
(* Under SpecReview the variables hold the loop's state:                   *)
(*   contents  the files of java_files not yet visited                     *)
(*   results   the results list                                            *)
(*   out       the status shown for each file's progress indicator         *)
(*   log       history: for each iteration, whether the content arrived,   *)
(*             whether the generator raised, whether its text or message   *)
(*             holds an opening brace, and what the parser did             *)
(* A response text is a sequence of tokens: "{" and "}", "k" for a member  *)
(* name with its colon, "0" for the number 0, "D" for a value nested       *)
(* deeper than the interpreter's recursion limit, "F" for a code-fence     *)
(* marker, " " for white space and "x" for any other text.                 *)
(***************************************************************************)
\* longest generator response and longest exception message
MaxResponse == 3

ResponseAlphabet == {"{", "}", "k", "0", "D", "F", " ", "x"}

\* str.strip
RECURSIVE Strip(_)
Strip(s) ==
    IF s = <<>> THEN s
    ELSE IF Head(s) = " " THEN Strip(Tail(s))
    ELSE IF s[Len(s)] = " " THEN Strip(SubSeq(s, 1, Len(s) - 1))
    ELSE s

\* line 151: re.sub removes every code-fence marker
RemoveFences(s) == SelectSeq(s, LAMBDA c : c # "F")

JsonNumber(n) == [type |-> "number", n |-> n]

JsonObject(members) == [type |-> "object", members |-> members]

\* the decoder at token i of s: [value, next], or the exception it raises
RECURSIVE ScanValue(_, _)
ScanValue(s, i) ==
    IF i > Len(s) THEN Raise("JSONDecodeError")
    ELSE IF s[i] = "0" THEN Return([value |-> JsonNumber(0), next |-> i + 1])
    ELSE IF s[i] = "D" THEN Raise("RecursionError")
    ELSE IF s[i] = "{"
    THEN IF i + 1 <= Len(s) /\ s[i + 1] = "}"
         THEN Return([value |-> JsonObject(<<>>), next |-> i + 2])
         ELSE IF i + 1 <= Len(s) /\ s[i + 1] = "k"
         THEN LET member == ScanValue(s, i + 2)
              IN  IF Raised(member) THEN member
                  ELSE IF member.value.next <= Len(s) /\ s[member.value.next] = "}"
                  THEN Return([value |-> JsonObject(<<member.value.value>>),
                               next |-> member.value.next + 1])
                  ELSE Raise("JSONDecodeError")
         ELSE Raise("JSONDecodeError")
    ELSE Raise("JSONDecodeError")

\* json.loads: white space between tokens is skipped, and one value is the whole text
json_loads(s) ==
    LET tokens == SelectSeq(s, LAMBDA c : c # " ")
        scanned == ScanValue(tokens, 1)
    IN  IF Raised(scanned) THEN scanned
        ELSE IF scanned.value.next <= Len(tokens) THEN Raise("JSONDecodeError")
        ELSE Return(scanned.value.value)

\* str.find('{'): the first index >= i of s holding "{", or 0
RECURSIVE FindBrace(_, _)
FindBrace(s, i) == IF i > Len(s) THEN 0 ELSE IF s[i] = "{" THEN i ELSE FindBrace(s, i + 1)

\* lines 165-174: the index of the brace that closes the one at start_idx, or 0
RECURSIVE MatchingBrace(_, _, _)
MatchingBrace(s, i, brace_count) ==
    IF i > Len(s) THEN 0
    ELSE IF s[i] = "{" THEN MatchingBrace(s, i + 1, brace_count + 1)
    ELSE IF s[i] = "}"
         THEN IF brace_count - 1 = 0 THEN i ELSE MatchingBrace(s, i + 1, brace_count - 1)
    ELSE MatchingBrace(s, i + 1, brace_count)

\* lines 179-190
FallbackAnalysis ==
    [summary |-> "Error parsing AI response",
     guidelines_analysis |->
        [i \in 1..10 |-> [guideline_number |-> i, status |-> "unknown",
                          details |-> "Failed to parse AI analysis"]]]

\* the generator's exception propagates instead of becoming a text
AnalyzePropagating(code, file_path, gen) ==
    IF Raised(gen) THEN Raise("Exception") ELSE Return(Strip(gen.value))

\* "Error generating analysis: "
ErrorPrefix == <<"x", " ">>

\* lines 109-146: gen is what model.generate_content(prompt) and reading
\* generation.text do: Raise(the exception's message), or Return(the text)
analyze_code_with_gemini(code, file_path, gen) ==
    IF Raised(gen) THEN Return(ErrorPrefix \o gen.exc) ELSE Return(Strip(gen.value))

\* lines 149-190: the first try handles JSONDecodeError alone; the second
\* turns every exception into the fallback analysis
parse_gemini_response(response_text) ==
    LET cleaned_text == Strip(RemoveFences(response_text))
        whole == json_loads(cleaned_text)
    IN  IF Returned(whole) THEN whole
        ELSE IF whole.exc # "JSONDecodeError" THEN whole
        ELSE LET start_idx == FindBrace(cleaned_text, 1)
                 close == IF start_idx = 0 THEN 0 ELSE MatchingBrace(cleaned_text, start_idx, 0)
             IN  IF start_idx = 0 \/ close = 0 THEN Return(FallbackAnalysis)
                 ELSE LET part == json_loads(SubSeq(cleaned_text, start_idx, close))
                      IN  IF Returned(part) THEN part ELSE Return(FallbackAnalysis)

\* the truth value of a parsed analysis: an empty object and 0 are false
Truthy(v) ==
    IF "type" \notin DOMAIN v THEN TRUE
    ELSE IF v.type = "object" THEN v.members # <<>>
    ELSE v.n # 0

\* lines 475-494 for a file whose content arrived: the results list, the
\* status shown, and (history) what parse_gemini_response did, if called
ReviewContent(res, path, content, gen) ==
    LET analysis_response == analyze_code_with_gemini(content, path, gen)
    IN  IF Raised(analysis_response)
        THEN [results |-> res, status |-> "error", parsed |-> NoValue]
        ELSE LET analysis_data == parse_gemini_response(analysis_response.value)
             IN  IF Raised(analysis_data)
                 THEN [results |-> res, status |-> "error", parsed |-> analysis_data]
                 ELSE IF Truthy(analysis_data.value)
                 THEN [results |-> Append(res, [file_path |-> path,
                                                analysis |-> analysis_data.value]),
                       status |-> "success", parsed |-> analysis_data]
                 ELSE [results |-> res, status |-> "error", parsed |-> analysis_data]

\* the files selected for review
JavaFileLists == {<<"A.java">>, <<"A.java", "B.java">>}

\* line 465, after the files were selected
InitReview ==
    /\ pc = "review"
    /\ contents \in JavaFileLists
    /\ results = <<>>
    /\ out = [k \in 1..Len(contents) |-> "empty"]
    /\ arg = NoValue
    /\ log = <<>>
    /\ ret = NoValue /\ listed = {} /\ report = NoValue

\* line 472 raises (a connection error, a body that is not base64 UTF-8):
\* the call is outside the try block and ends the loop
ReviewFetchRaises ==
    /\ pc = "review" /\ contents # <<>>
    /\ pc' = "review_raised"
    /\ out' = [out EXCEPT ![Len(log) + 1] = "in_progress"]
    /\ log' = Append(log, [path |-> Head(contents), fetched |-> FALSE, raised |-> TRUE])
    /\ contents' = Tail(contents)
    /\ UNCHANGED <<results, ret, listed, arg, report>>

\* lines 468-500, get_file_content returns an error message
ReviewFetchError ==
    /\ pc = "review" /\ contents # <<>>
    /\ out' = [out EXCEPT ![Len(log) + 1] = "error"]
    /\ log' = Append(log, [path |-> Head(contents), fetched |-> FALSE, raised |-> FALSE])
    /\ contents' = Tail(contents)
    /\ UNCHANGED <<pc, results, ret, listed, arg, report>>

\* lines 468-500, the content arrives
ReviewFile ==
    /\ pc = "review" /\ contents # <<>>
    /\ \E text \in SeqsUpTo(ResponseAlphabet, MaxResponse), failed \in BOOLEAN :
         LET gen == IF failed THEN Raise(text) ELSE Return(text)
             step == ReviewContent(results, Head(contents), <<"c">>, gen)
         IN  /\ results' = step.results
             /\ out' = [out EXCEPT ![Len(log) + 1] = step.status]
             /\ log' = Append(log, [path |-> Head(contents), fetched |-> TRUE,
                                    raised |-> failed, brace |-> FindBrace(text, 1) # 0,
                                    parsed |-> step.parsed])
    /\ contents' = Tail(contents)
    /\ UNCHANGED <<pc, ret, listed, arg, report>>

\* lines 502-510: the loop is over
ReviewDone ==
    /\ pc = "review" /\ contents = <<>>
    /\ pc' = "review_done"
    /\ UNCHANGED <<contents, results, ret, listed, log, arg, out, report>>

NextReview == ReviewFetchRaises \/ ReviewFetchError \/ ReviewFile \/ ReviewDone

SpecReview == InitReview /\ [][NextReview]_vars

(***************************************************************************)
(* What the claims speak of.                                               *)
(***************************************************************************)
RECURSIVE SumOver(_, _)
SumOver(S, f) == IF S = {} THEN 0 ELSE LET x == CHOOSE y \in S : TRUE IN f[x] + SumOver(S \ {x}, f)

\* a populated report, as opposed to the error result
Populated(r) == "file_results" \in DOMAIN r /\ "error" \notin DOMAIN r

ErrorMarked(r) == "error" \in DOMAIN r

FileCount(r) == IF "file_results" \in DOMAIN r THEN Cardinality(DOMAIN r.file_results) ELSE 0

IssueSum(r) ==
    IF "file_results" \in DOMAIN r
    THEN SumOver(DOMAIN r.file_results, [q \in DOMAIN r.file_results |-> Len(r.file_results[q].issues)])
    ELSE 0

ComplexitySum(r) ==
    SumOver(DOMAIN r.file_results, [q \in DOMAIN r.file_results |-> r.file_results[q].metrics.complexity])

LocSum(r) ==
    SumOver(DOMAIN r.file_results, [q \in DOMAIN r.file_results |-> r.file_results[q].metrics.loc])

ZeroMetrics ==
    [avg_complexity |-> RatInt(0), avg_maintainability |-> RatInt(0), total_loc |-> 0,
     quality_score |-> RatInt(0)]

Events(kind) == {k \in 1..Len(log) : log[k].ev = kind}

\* the recognized files whose content could not be fetched or decoded
FailedFiles == {log[k].path : k \in {j \in Events("file") : ~log[j].ok}}

RepoFailed == \E k \in Events("get_repo") : ~log[k].ok

RootFailed == \E k \in Events("get_contents") : log[k].path = <<>> /\ ~log[k].ok

\* listing a directory popped from the work list failed
SubdirFailed == \E k \in Events("get_contents") : log[k].path # <<>> /\ ~log[k].ok

AllCallsOk == \A k \in 1..Len(log) : "ok" \in DOMAIN log[k] => log[k].ok

\* the entries taken off the work list so far
Popped == {log[k].path : k \in {j \in 1..Len(log) : "path" \in DOMAIN log[j] /\ log[j].path # <<>>}}

CountsAgree(r) == r.files_analyzed = FileCount(r) /\ r.total_issues = IssueSum(r)

\* C1: between two work-list items and after any run, files_analyzed is the
\* number of entries of file_results and total_issues the sum of their issue
\* counts; when no file was processed, files_analyzed is 0 and overall_metrics
\* keeps its zero defaults.
C1_AggregatesMatchFileResults ==
    /\ pc = "loop" => CountsAgree(results)
    /\ pc = "done" => Returned(ret) /\ CountsAgree(ret.value)
    /\ (pc = "done" /\ Populated(ret.value) /\ (\A k \in Events("file") : ~log[k].ok))
         => ret.value.files_analyzed = 0 /\ ret.value.overall_metrics = ZeroMetrics

\* a finished walk that recorded two files with issues and skipped a third
C1_Witness ==
    /\ pc = "done" /\ Populated(ret.value)
    /\ ret.value.files_analyzed = 2 /\ ret.value.total_issues >= 3
    /\ FailedFiles # {}

\* C2: once the repository is resolved and the root is listed, no later
\* provider failure aborts the run: the result is a populated report that
\* retains every record made so far.
C2_OnlyInitialAccessAborts ==
    (pc = "done" /\ ~RepoFailed /\ ~RootFailed)
      => Populated(ret.value) /\ ret.value.file_results = results.file_results

\* C3: a recognized file whose processing failed has no entry in file_results,
\* and the run it is part of pops every listed entry and ends with a populated
\* report.
C3_FileFailureNeverAborts ==
    \A path \in FailedFiles :
       /\ path \notin DOMAIN results.file_results
       /\ pc = "done" => /\ Populated(ret.value)
                         /\ path \notin DOMAIN ret.value.file_results
                         /\ \A e \in listed : e.path \in Popped

\* The file failure itself is contained: C3_FileFailureNeverAborts holds of
\* every run in which no sub-directory listing fails.
FileFailureContainedUnlessListingFails == SubdirFailed \/ C3_FileFailureNeverAborts

\* the step that skips a failed file changes no counter and stays in the loop
FileFailureStepChangesNothing == [][PopFileFails => results' = results /\ pc' = "loop"]_vars

\* C4: when get_repo or the root listing raises, the run is over at once and
\* returns, without raising, a result with the error marker, files_analyzed 0,
\* total_issues 0 and no file_results entries.
C4_AccessFailureGivesErrorResult ==
    (RepoFailed \/ RootFailed)
      => /\ pc = "done" /\ Returned(ret)
         /\ ErrorMarked(ret.value)
         /\ ret.value.files_analyzed = 0 /\ ret.value.total_issues = 0
         /\ FileCount(ret.value) = 0
         /\ Popped = {} /\ contents = <<>>

\* the root listing failed after the repository was resolved
C4_Witness == pc = "done" /\ RootFailed /\ Len(log) = 2 /\ ErrorMarked(ret.value)

\* the score of section 4.3 for a report: total_issues is the report's
\* aggregate count and total_loc its line count
WeightedScore(r) ==
    LET om == r.overall_metrics
        complexity_score == RatMax(RatInt(0), RatSub(RatInt(100), RatMul(RatInt(5), om.avg_complexity)))
        density == RatMin(RatInt(100), Rat(1000 * r.total_issues, om.total_loc))
    IN  RatAdd(RatAdd(RatMul(Rat(3, 10), complexity_score), RatMul(Rat(3, 10), om.avg_maintainability)),
               RatMul(Rat(4, 10), RatSub(RatInt(100), density)))

\* C5: a finished walk with files_analyzed > 0 and total_loc > 0 reports
\* quality_score = 0.3*max(0, 100 - 5*avg_complexity) + 0.3*avg_maintainability
\* + 0.4*(100 - min(100, 1000*total_issues/total_loc)).
C5_ScoreIsWeightedSum ==
    (pc = "done" /\ Populated(ret.value) /\ ret.value.files_analyzed > 0
       /\ ret.value.overall_metrics.total_loc > 0)
      => ret.value.overall_metrics.quality_score = WeightedScore(ret.value)

\* the keys the scorer reads without a default
ScoreKeys == {"avg_complexity", "total_issues", "total_loc"}

\* C6: the scorer never raises, and on every input on which the computation
\* errors (a key it reads is missing, or total_loc is 0) the score is 0.
C6_ScorerNeverRaises ==
    pc = "done"
      => /\ Returned(out)
         /\ (~(ScoreKeys \subseteq DOMAIN arg) \/ arg.total_loc = 0) => out.value = RatInt(0)

\* the division by zero itself: every key present, total_loc 0, issues counted
C6_Witness ==
    /\ pc = "done" /\ ScoreKeys \subseteq DOMAIN arg
    /\ arg.total_loc = 0 /\ arg.total_issues > 0
    /\ out = Return(RatInt(0))

\* the files the provider has listed under a recognized name
RecognizedListed == {e \in listed : e.type # "dir" /\ e.name \in {NamePy, NameJava}}

LanguageByName(e) == IF e.name = NamePy THEN "python" ELSE "java"

Dispatches(path) == {k \in Events("file") : log[k].path = path}

\* C7: while every provider call succeeds: an entry waits on the work list only
\* after its directory was popped and listed; a file with another extension has
\* no record; and when the walk is over each listed .py or .java file was
\* dispatched exactly once, in its language, and has exactly one record, the
\* counters counting these records alone.
C7_EachRecognizedFileOnce ==
    AllCallsOk
      => /\ \A k \in 1..Len(contents) :
              \E e \in listed :
                 /\ e.path = contents[k].path /\ e.type = contents[k].type
                 /\ e.parent # <<>> => e.parent \in Popped
         /\ \A e \in listed : e.parent = <<>> \/ e.parent \in Popped
         /\ pc \in {"loop", "done"}
              => DOMAIN results.file_results \subseteq {e.path : e \in RecognizedListed}
         /\ \A e \in RecognizedListed : Cardinality(Dispatches(e.path)) <= 1
         /\ pc = "done"
              => /\ Populated(ret.value)
                 /\ DOMAIN ret.value.file_results = {e.path : e \in RecognizedListed}
                 /\ \A e \in RecognizedListed :
                       /\ Cardinality(Dispatches(e.path)) = 1
                       /\ \A k \in Dispatches(e.path) : log[k].language = LanguageByName(e)
                       /\ ret.value.file_results[e.path].language = LanguageByName(e)
                 /\ ret.value.files_analyzed = Cardinality(RecognizedListed)
                 /\ ret.value.overall_metrics.total_loc = LocSum(ret.value)
                 /\ \A e \in listed : e.path \in Popped

\* a finished walk over a sub-directory holding one file of each kind
C7_Witness ==
    /\ pc = "done" /\ AllCallsOk /\ Populated(ret.value)
    /\ \E d, a, b, c \in listed :
          /\ d.type = "dir" /\ d.parent = <<>>
          /\ a.parent = d.path /\ a.name = NamePy /\ a.type = "file"
          /\ b.parent = d.path /\ b.name = NameJava
          /\ c.name = NameOther
          /\ DOMAIN ret.value.file_results = {a.path, b.path}

\* C8: during the walk overall_metrics.avg_complexity is the running sum of the
\* recorded files' complexity and quality_score is 0; in the returned report
\* avg_complexity is that sum divided by files_analyzed when files_analyzed > 0,
\* and stays 0, with quality_score 0, when files_analyzed = 0.
C8_TwoPhaseAverage ==
    /\ pc = "loop"
         => /\ results.overall_metrics.avg_complexity = RatInt(ComplexitySum(results))
            /\ results.overall_metrics.quality_score = RatInt(0)
    /\ (pc = "done" /\ Populated(ret.value))
         => IF ret.value.files_analyzed > 0
            THEN ret.value.overall_metrics.avg_complexity
                   = Rat(ComplexitySum(ret.value), ret.value.files_analyzed)
            ELSE /\ ret.value.overall_metrics.avg_complexity = RatInt(0)
                 /\ ret.value.overall_metrics.quality_score = RatInt(0)

\* a report over three files whose average is not a whole number
C8_Witness ==
    /\ pc = "done" /\ Populated(ret.value)
    /\ ret.value.files_analyzed = 3
    /\ ret.value.overall_metrics.avg_complexity.den = 3

\* the duplication of lines 128-134 for a text, the default where the step
\* does not apply or the vectorizer itself raises
ExpectedDuplication(code) ==
    IF Len(splitlines(code)) > 1 /\ ~EmptyVocabulary(splitlines(code))
    THEN Rat(CountSimilar(splitlines(code)) - Len(splitlines(code)), 2)
    ELSE RatInt(0)

\* a third-party call of the language's branch raised
MetricFailed(a) ==
    \/ a.language = "python" /\ (Raised(a.ext.cc) \/ Raised(a.ext.mi) \/ Raised(a.ext.pylint))
    \/ a.language = "java" /\ (Raised(a.ext.pmd) \/ a.ext.pmd.value.text = "garbage")

\* C9: when one language-specific metric computation fails, calculate_metrics
\* does not raise, the metrics whose own computation succeeds are computed, and
\* the duplication is computed for the file.
C9_MetricFailureIsContained ==
    (pc = "done" /\ MetricFailed(arg))
      => /\ Returned(out)
         /\ out.value.duplication = ExpectedDuplication(arg.code)
         /\ (arg.language = "python" /\ Returned(arg.ext.mi))
              => out.value.maintainability = arg.ext.mi.value

\* the line boundaries of a text, "\r\n" counting once
Boundaries(code) ==
    {k \in 1..Len(code) : code[k] \in LineBreaks /\ ~(code[k] = "\n" /\ k > 1 /\ code[k - 1] = "\r")}

Newlines(code) == {k \in 1..Len(code) : code[k] = "\n"}

\* C10 as amended: loc is the number of lines the line boundaries delimit, a
\* final boundary starting no further line: one per boundary, and one more for
\* a last line that no boundary ends.
C10_LocCountsTerminatedLines ==
    pc = "done"
      => out.value.loc = Cardinality(Boundaries(arg.code))
                         + (IF arg.code # <<>> /\ arg.code[Len(arg.code)] \notin LineBreaks
                            THEN 1 ELSE 0)

\* two newline-terminated lines give loc 2
C10_Witness ==
    /\ pc = "done" /\ arg.code = <<"i", "\n", "f", "\n">>
    /\ out.value.loc = 2

\* C10: loc is the number of newline-separated lines, the empty line after a
\* final newline counted (k newline-terminated lines give k + 1).
C10_LocCountsTrailingEmptyLine ==
    (pc = "done" /\ arg.code # <<>> /\ \A k \in 1..Len(arg.code) : arg.code[k] # "\r")
      => out.value.loc = Cardinality(Newlines(arg.code)) + 1

\* the language branch of the try block completed, so the duplication step ran
BranchCompleted(a) ==
    \/ a.language = "python" /\ Returned(a.ext.cc) /\ Returned(a.ext.mi) /\ Returned(a.ext.pylint)
    \/ a.language = "java" /\ Raised(a.ext.pmd) /\ a.ext.pmd.exc = "FileNotFoundError"
    \/ a.language = "java" /\ Returned(a.ext.pmd) /\ a.ext.pmd.value.text # "garbage"

\* n >= 2 lines, all the same, and holding at least one word
IdenticalLines(code) ==
    LET lines == splitlines(code)
    IN  /\ Len(lines) >= 2
        /\ \A k \in 1..Len(lines) : lines[k] = lines[1]
        /\ Runs(lines[1]) # <<>>

\* C(n, 2)
Choose2(n) == (n * (n - 1)) \div 2

\* C11: a file of n >= 2 identical lines has duplication C(n,2), whatever the
\* line holds, lines made only of one-character tokens included.
C11_IdenticalLinesCountPairs ==
    (pc = "done" /\ BranchCompleted(arg) /\ IdenticalLines(arg.code))
      => out.value.duplication = RatInt(Choose2(Len(splitlines(arg.code))))

\* Identical lines that hold a token of two or more characters are counted as
\* C11 says; the lines of one-character tokens are what the vectorizer rejects.
IdenticalTokenLinesCountPairs ==
    (pc = "done" /\ BranchCompleted(arg) /\ IdenticalLines(arg.code)
       /\ Tokens(splitlines(arg.code)[1]) # <<>>)
      => out.value.duplication = RatInt(Choose2(Len(splitlines(arg.code))))

\* C16: the duplication that calculate_metrics returns is >= 0, files with
\* blank lines or lines without tokens included, and is 0 for a file of at
\* most one line.
C16_DuplicationNonNegative ==
    pc = "done"
      => /\ ~RatLess(out.value.duplication, RatInt(0))
         /\ Len(splitlines(arg.code)) <= 1 => out.value.duplication = RatInt(0)

\* the parser of the language rejected the input
ParseFailed(a) ==
    \/ a.language = "python" /\ Raised(a.ext.ast)
    \/ a.language = "java" /\ Raised(a.ext.javatree)

ParserError(a) == IF a.language = "python" THEN a.ext.ast.exc ELSE a.ext.javatree.exc

AnalysisErrorText(language) ==
    IF language = "python" THEN "Python analysis error" ELSE "Java analysis error"

\* C12: on input its parser rejects, the analyzer of each language returns,
\* without raising, exactly one issue, which names the analysis error of that
\* language and carries the parser's message.
C12_InvalidInputGivesOneIssue ==
    (pc = "done" /\ ParseFailed(arg))
      => /\ Returned(out)
         /\ Len(out.value) = 1
         /\ out.value[1] = [issue |-> AnalysisErrorText(arg.language), error |-> ParserError(arg)]

\* the Java parser rejected the input and one issue came back
C12_Witness ==
    /\ pc = "done" /\ arg.language = "java" /\ Raised(arg.ext.javatree)
    /\ Len(out.value) = 1 /\ out.value[1].issue = "Java analysis error"

IssuesNamed(issues, text) == SelectSeq(issues, LAMBDA i : i.issue = text)

\* a function definition with neither a return annotation nor an annotated parameter
Unannotated(node) ==
    /\ node.type = "FunctionDef"
    /\ ~node.returns
    /\ \A k \in 1..Len(node.args.args) : ~node.args.args[k].annotation

\* C17: the Python analyzer emits "Missing type hints" for a function
\* definition if and only if it has neither a return annotation nor an
\* annotated parameter, once per such function.
C17_TypeHintsIffUnannotated ==
    (pc = "done" /\ arg.language = "python" /\ Returned(arg.ext.ast))
      => LET flagged == IssuesNamed(out.value, "Missing type hints in function")
             meant == SelectSeq(ast_walk(arg.ext.ast.value), Unannotated)
         IN  /\ Len(flagged) = Len(meant)
             /\ \A k \in 1..Len(meant) : flagged[k].name = meant[k].name

\* What the code flags: every function definition without a return
\* annotation, whatever its parameters.
TypeHintsIffNoReturnAnnotation ==
    (pc = "done" /\ arg.language = "python" /\ Returned(arg.ext.ast))
      => LET flagged == IssuesNamed(out.value, "Missing type hints in function")
             meant == SelectSeq(ast_walk(arg.ext.ast.value),
                                LAMBDA n : n.type = "FunctionDef" /\ ~n.returns)
         IN  /\ Len(flagged) = Len(meant)
             /\ \A k \in 1..Len(meant) : flagged[k].name = meant[k].name

\* the list comprehensions at or below node that lie inside a for loop
RECURSIVE ListCompsInFor(_, _)
ListCompsInFor(node, inFor) ==
    (IF node.type = "ListComp" /\ inFor THEN 1 ELSE 0)
    + LET below == [k \in 1..Len(node.children) |->
                      ListCompsInFor(node.children[k], inFor \/ node.type = "For")]
      IN  SumOver(DOMAIN below, below)

GeneratorText == "Consider using generator expression for memory efficiency"

\* C18: the Python analyzer emits "Consider using generator expression" for a
\* list comprehension nested in a for loop.
C18_ListCompInLoopFlagged ==
    (pc = "done" /\ arg.language = "python" /\ Returned(arg.ext.ast)
       /\ ListCompsInFor(arg.ext.ast.value, FALSE) > 0)
      => IssuesNamed(out.value, GeneratorText) # <<>>

\* What the code does: the node it compares with a for loop is the first node
\* of the walk, the module, so the issue is emitted for no input.
GeneratorIssueNeverEmitted ==
    (pc = "done" /\ arg.language = "python") => IssuesNamed(out.value, GeneratorText) = <<>>

\* the fields a class declares: the declarators of its field declarations
FieldCount(class) ==
    LET n == [k \in 1..Len(ClassFields(class)) |-> Len(ClassFields(class)[k].declarators)]
    IN  SumOver(DOMAIN n, n)

HasBuilder(class) == \E k \in 1..Len(class.body) :
                        class.body[k].type = "MethodDeclaration" /\ class.body[k].name = "builder"

BuilderText == "Consider implementing Builder pattern"

\* C19: the Java analyzer emits "Consider implementing Builder pattern" for a
\* class that has more than five fields and no method named builder, however
\* the fields are declared, and for no other class.
C19_BuilderIffManyFields ==
    (pc = "done" /\ arg.language = "java" /\ Returned(arg.ext.javatree))
      => LET class == arg.ext.javatree.value.children[1]
         IN  Len(IssuesNamed(out.value, BuilderText))
               = (IF FieldCount(class) > 5 /\ ~HasBuilder(class) THEN 1 ELSE 0)

\* What the code counts: the field declarations, not the fields they declare.
BuilderIffManyDeclarations ==
    (pc = "done" /\ arg.language = "java" /\ Returned(arg.ext.javatree))
      => LET class == arg.ext.javatree.value.children[1]
         IN  Len(IssuesNamed(out.value, BuilderText))
               = (IF Len(ClassFields(class)) > 5 /\ ~HasBuilder(class) THEN 1 ELSE 0)

\* the calls at or below node whose callee is the name eval or exec
RECURSIVE CallSites(_)
CallSites(node) ==
    (IF node.type = "Call" /\ node.func.type = "Name" /\ node.func.id \in {"eval", "exec"}
     THEN 1 ELSE 0)
    + LET below == [k \in 1..Len(node.children) |-> CallSites(node.children[k])]
      IN  SumOver(DOMAIN below, below)

\* the parser of the file's language accepted the file of event k
Parsed(k) ==
    IF log[k].language = "python" THEN Returned(log[k].file.ext.ast)
    ELSE Returned(log[k].file.ext.javatree)

UnsafeText == "Potentially unsafe use of"

\* C13: when the walk is over and every recognized file was fetched and
\* parsed, files_analyzed is the number of recognized files and the record of
\* each Python file holds one "Potentially unsafe use of" issue per call of
\* eval or exec in it.
C13_EndToEndUnsafeCalls ==
    (pc = "done" /\ AllCallsOk /\ \A k \in Events("file") : Parsed(k))
      => /\ Populated(ret.value)
         /\ ret.value.files_analyzed = Cardinality(RecognizedListed)
         /\ \A k \in Events("file") :
               log[k].language = "python"
                 => LET unsafe == IssuesNamed(ret.value.file_results[log[k].path].issues, UnsafeText)
                    IN  /\ Len(unsafe) = CallSites(log[k].file.ext.ast.value)
                        /\ \A j \in 1..Len(unsafe) : unsafe[j].name \in {"eval", "exec"}

\* scenario A: a Python file that calls eval once and a Java file, both recorded
C13_Witness ==
    /\ pc = "done" /\ AllCallsOk /\ Populated(ret.value)
    /\ ret.value.files_analyzed = 2
    /\ \E k, j \in Events("file") :
          /\ log[k].language = "python" /\ log[k].file.ext.ast = Return(TreeEval)
          /\ Len(IssuesNamed(ret.value.file_results[log[k].path].issues, UnsafeText)) = 1
          /\ log[j].language = "java" /\ Parsed(j)

FailureNotice(e) == [text |-> "AI review failed: ", error |-> e]

\* C14: a step that processes a file whose generator call fails stores the
\* file's record with the failure notice as ai_suggestions, and changes the
\* record's other fields, files_analyzed, total_issues and overall_metrics
\* exactly as the same step with a generator that succeeds.
C14_GeneratorFailureStillRecorded ==
    [][(Len(log') = Len(log) + 1 /\ log'[Len(log')].ev = "file" /\ log'[Len(log')].ok
          /\ Raised(log'[Len(log')].gen))
         => LET e == log'[Len(log')]
                good == ProcessFile(results, e.path, Return(e.file.code), e.file.ext,
                                    Return("advice"))
            IN  /\ e.path \in DOMAIN results'.file_results
                /\ results'.file_results[e.path].ai_suggestions = FailureNotice(e.gen.exc)
                /\ results'.file_results[e.path]
                     = [good.file_results[e.path] EXCEPT !.ai_suggestions = FailureNotice(e.gen.exc)]
                /\ results'.files_analyzed = results.files_analyzed + 1
                /\ results'.files_analyzed = good.files_analyzed
                /\ results'.total_issues = good.total_issues
                /\ results'.overall_metrics = good.overall_metrics]_vars

\* a recorded file whose suggestions are the failure notice
C14_Witness ==
    \E k \in Events("file") :
       /\ log[k].ok /\ Raised(log[k].gen)
       /\ log[k].path \in DOMAIN results.file_results
       /\ results.file_results[log[k].path].ai_suggestions = FailureNotice(log[k].gen.exc)
       /\ results.files_analyzed >= 1

\* the events that took the entry at path off the work list
Pops(path) ==
    {k \in 1..Len(log) : "path" \in DOMAIN log[k] /\ log[k].path = path /\ path # <<>>}

\* each listed entry is popped at most once, and each provider call (the
\* repository, each listing, each file's content) is made at most once
NoRetry ==
    /\ \A e \in listed : Cardinality(Pops(e.path)) <= 1
    /\ Cardinality(Events("get_repo")) <= 1
    /\ Cardinality({k \in Events("get_contents") : log[k].path = <<>>}) <= 1

\* C15: the walk terminates: the work list eventually becomes empty and
\* process_repository returns; each work-list entry is popped at most once
\* and no provider call is retried.
C15_WalkTerminates ==
    /\ <>(pc = "done" /\ contents = <<>>)
    /\ [](pc = "done" => contents = <<>>)
    /\ []NoRetry

\* process_repository returns in every run
WalkReturns == <>(pc = "done")

\* the work list is empty at the return of every run in which no
\* sub-directory listing fails
WorkListEmptyUnlessListingFails == (pc = "done" /\ ~SubdirFailed) => contents = <<>>

AllHeaderLines == [j \in 1..Len(HeaderLines) |-> HeaderLines[j].line]

\* C20: generate_report is not total over what process_repository returns:
\* the error result has no scan_date, file_results or overall_metrics, and
\* generate_report, which main calls on it, raises on the missing scan_date
\* after writing the title and the repository line only; on a populated
\* report it writes every line and returns.
C20_ReportRaisesOnErrorResult ==
    /\ (pc = "done" /\ ErrorMarked(ret.value))
         => DOMAIN ret.value \cap {"scan_date", "file_results", "overall_metrics"} = {}
    /\ (report # NoValue /\ ErrorMarked(ret.value))
         => /\ report.outcome = Raise("KeyError")
            /\ report.written = <<"# Code Review Analysis Report", "## Repository:">>
            /\ report.sections = {}
    /\ (report # NoValue /\ Populated(ret.value))
         => /\ Returned(report.outcome)
            /\ report.written = AllHeaderLines
            /\ report.sections = DOMAIN ret.value.file_results

\* main after a failed root listing: the report call has raised
C20_Witness ==
    /\ pc = "done" /\ RootFailed /\ ErrorMarked(ret.value)
    /\ report # NoValue /\ Raised(report.outcome) /\ Len(report.written) = 2

\* C21: overall_metrics.avg_maintainability is never written: during the walk
\* and in every populated report the key is present and its value is 0,
\* whatever the maintainability of the recorded files, so the scorer, which
\* is given overall_metrics, never takes its default of 50.
C21_AvgMaintainabilityStaysZero ==
    /\ pc = "loop"
         => /\ "avg_maintainability" \in DOMAIN results.overall_metrics
            /\ results.overall_metrics.avg_maintainability = RatInt(0)
    /\ (pc = "done" /\ Populated(ret.value))
         => /\ "avg_maintainability" \in DOMAIN ret.value.overall_metrics
            /\ ret.value.overall_metrics.avg_maintainability = RatInt(0)

\* a report that holds a Java file with the default maintainability of 50 and
\* a Python file with a measured one
C21_Witness ==
    /\ pc = "done" /\ Populated(ret.value)
    /\ \E a, b \in DOMAIN ret.value.file_results :
          /\ ret.value.file_results[a].metrics.maintainability = 50
          /\ ret.value.file_results[b].metrics.maintainability = 75
    /\ ret.value.overall_metrics.avg_maintainability = RatInt(0)

\* the entries of the results list for the file at path
Entries(path) == {j \in 1..Len(results) : results[j].file_path = path}

\* the parser returned an analysis that counts as true
Analysed(e) == Returned(e.parsed) /\ Truthy(e.parsed.value)

\* the parser returned an analysis that is empty
EmptyAnalysis(e) == Returned(e.parsed) /\ ~Truthy(e.parsed.value)

====
